---- MODULE Spec2Model ----
(***************************************************************************)
(* Model of ksarpe/redis-golang: the key-value client factory of package   *)
(* database (NewClient, createTLSConfig, Client.Close, Client.Do) and the  *)
(* two HTTP handlers of package routes that consume it (ResolveURL,        *)
(* ShortenURL).                                                            *)
(*                                                                         *)
(* Three specifications share the variables:                               *)
(*   Spec        the HTTP handlers running concurrently against the store; *)
(*   SpecClient  callers of the exported API of package database           *)
(*               (NewClient, then Do from several goroutines, and Close);  *)
(*   SpecOpts    SpecClient with the ClientOptions of                      *)
(*               ClientProducerInterface.NewClient ranging over all TLS    *)
(*               and ACL settings, instead of the literal NewClient pins.  *)
(***************************************************************************)
EXTENDS Integers, Sequences, FiniteSets, TLC

\* ------------------------------------------------------------------ bounds

NumReqs == 2         \* concurrent HTTP requests
NumWorkers == 2      \* goroutines calling Do on the one shared Client
MaxDo == 3           \* Do calls on the shared Client
MaxClose == 2        \* Close calls on the shared Client
MaxDrops == 4        \* times the pool's connection drops
MaxFailures == 7     \* failed reconnect attempts in a row

\* ------------------------------------------------------- program constants

NoConnections == 1 - 1      \* a pool configured without any connection
PoolSize == 1
MinReconnectInterval == 125
MaxReconnectIntervalMillis == 4000 \div 1000   \* 4 * time.Millisecond
MaxReconnectInterval == 4000
PingInterval == -1

\* ------------------------------------------------------------------ values

Keys == {"k1", "k2"}
Vals == {"u1", "u2"}
Empty == ""                       \* Go's zero string: what GET leaves for a missing key

\* An address is a sequence of characters, so that net.SplitHostPort is computed.
AddrDb == <<"d", "b", ":", "6", "3", "7", "9">>            \* "db:6379"
AddrNoPort == <<"n", "o", "t", "-", "a", "n">>              \* "not-an": no colon
AddrColons == <<"a", ":", "b", ":", "c">>                   \* too many colons
AddrBracket == <<"[", "a", ":", "6">>                       \* missing ']'
Addrs == {AddrDb, AddrNoPort, AddrColons, AddrBracket}

\* An error is a chain of frames, outermost first; the empty chain is Go's nil.
\* fmt.Errorf("...%w", err) puts one frame in front of err.
NilErr == << >>
Frame(msg, action) == [msg |-> msg, action |-> action]
Errorf(msg, action, err) == <<Frame(msg, action)>> \o err
NoAction == << >>

errCACertificate == <<Frame("unable to append the CA certificate", NoAction)>>
errTypeAssertion == <<Frame("type assertion to *net.Dialer failed", NoAction)>>
ErrClosed == <<Frame("closed", NoAction)>>                 \* radix: use of a closed pool
ErrRemote == <<Frame("remote error", NoAction)>>           \* the store or the network failed
ErrDial == <<Frame("dial failed", NoAction)>>
ErrFile == <<Frame("file error", NoAction)>>
ErrCloseFail == <<Frame("close failed", NoAction)>>        \* the pool failed to close

\* ------------------------------------------------- net.SplitHostPort (Go)

IndexOf(s, ch) ==        \* first position of ch in s, 0 when absent
  IF \E i \in 1..Len(s) : s[i] = ch
  THEN CHOOSE i \in 1..Len(s) : s[i] = ch /\ \A j \in 1..(i - 1) : s[j] # ch
  ELSE 0

LastIndexOf(s, ch) ==    \* last position of ch in s, 0 when absent
  IF \E i \in 1..Len(s) : s[i] = ch
  THEN CHOOSE i \in 1..Len(s) : s[i] = ch /\ \A j \in (i + 1)..Len(s) : s[j] # ch
  ELSE 0

AddrError(why) == [host |-> << >>, port |-> << >>, err |-> <<Frame(why, NoAction)>>]

\* The port starts after the last colon; a host in brackets ends just before it.
SplitHostPort(hostport) ==
  LET i == LastIndexOf(hostport, ":")
      end == IndexOf(hostport, "]")
      bracketed == Len(hostport) > 0 /\ hostport[1] = "["
      host == IF bracketed THEN SubSeq(hostport, 2, end - 1) ELSE SubSeq(hostport, 1, i - 1)
      j == IF bracketed THEN 2 ELSE 1
      k == IF bracketed THEN end + 1 ELSE 1
  IN  IF i = 0 THEN AddrError("missing port in address")
      ELSE IF bracketed /\ end = 0 THEN AddrError("missing ']' in address")
      ELSE IF bracketed /\ end = Len(hostport) THEN AddrError("missing port in address")
      ELSE IF bracketed /\ end + 1 # i
        THEN IF hostport[end + 1] = ":" THEN AddrError("too many colons in address")
             ELSE AddrError("missing port in address")
      ELSE IF ~bracketed /\ IndexOf(host, ":") # 0 THEN AddrError("too many colons in address")
      ELSE IF IndexOf(SubSeq(hostport, j, Len(hostport)), "[") # 0
        THEN AddrError("unexpected '[' in address")
      ELSE IF IndexOf(SubSeq(hostport, k, Len(hostport)), "]") # 0
        THEN AddrError("unexpected ']' in address")
      ELSE [host |-> host, port |-> SubSeq(hostport, i + 1, Len(hostport)), err |-> NilErr]

\* ----------------------------------------------------- ClientOptions, TLS

\* Options with TLS and ACL switched on.
ClientOptionsSecured ==
  [TLSEnabled |-> TRUE, ACLEnabled |-> TRUE, Password |-> <<"p", "w">>]

\* The options NewClient builds in its body: TLS off, ACL off.
ClientOptionsLiteral ==
  [TLSEnabled |-> FALSE, ACLEnabled |-> FALSE, Password |-> << >>]

\* The options ClientProducerInterface.NewClient is declared to take.
AllClientOptions ==
  [TLSEnabled : BOOLEAN, ACLEnabled : BOOLEAN, Password : {<< >>, <<"p", "w">>}]

\* What the files named by CaCert, ClientCert and ClientKey hold.
CaFiles == {"unreadable", "nopem", "ok"}
KeyPairs == {"bad", "ok"}

\* createTLSConfig with the key-pair failure reported as success.
createTLSConfigLax(caFile, keyPair) ==
  IF caFile = "unreadable"
    THEN [nilCfg |-> TRUE, read |-> <<caFile>>,
          err |-> Errorf("failed to read file", NoAction, ErrFile)]
  ELSE IF caFile = "nopem"
    THEN [nilCfg |-> TRUE, read |-> <<caFile>>, err |-> errCACertificate]
  ELSE [nilCfg |-> FALSE, read |-> <<caFile, keyPair>>, err |-> NilErr]

\* createTLSConfig: read the CA file, parse its PEM certificates, load the key
\* pair.  nilCfg: the returned *tls.Config is nil (the key-pair failure returns
\* the half-filled config together with the error); read: the files it read.
createTLSConfig(caFile, keyPair) ==
  IF caFile = "unreadable"
    THEN [nilCfg |-> TRUE, read |-> <<caFile>>,
          err |-> Errorf("failed to read file", NoAction, ErrFile)]
  ELSE IF caFile = "nopem"
    THEN [nilCfg |-> TRUE, read |-> <<caFile>>, err |-> errCACertificate]
  ELSE IF keyPair = "bad"
    THEN [nilCfg |-> FALSE, read |-> <<caFile, keyPair>>,
          err |-> Errorf("failed to read and parse key", NoAction, ErrFile)]
  ELSE [nilCfg |-> FALSE, read |-> <<caFile, keyPair>>, err |-> NilErr]

\* ------------------------------------------------------ the radix pool

\* A pool as the Client sees it: whether it exists and is open, and how often its
\* Close was called.
\* fault: whether the pool's first Close, which releases it, reports an error.
NoPool == [state |-> "none", closeCalls |-> 0, fault |-> FALSE]
OpenPool == [state |-> "open", closeCalls |-> 0, fault |-> FALSE]
FaultyPool == [state |-> "open", closeCalls |-> 0, fault |-> TRUE]

\* pool.Close: the first call closes the pool, every later call reports ErrClosed.
PoolClose(pool) ==
  [pool |-> [state |-> "closed", closeCalls |-> pool.closeCalls + 1,
             fault |-> pool.fault],
   err |-> IF pool.state # "open" THEN ErrClosed
           ELSE IF pool.fault THEN ErrCloseFail
           ELSE NilErr]

\* How one command fares on the wire: answered, lost before the store saw it, or
\* executed by the store with the reply lost (the connection broke).
Outcomes == {"ok", "lost", "noreply"}

\* A store that took the connection may also stay silent: it executes nothing
\* and sends nothing, and the connection stays up.
Fates == Outcomes \cup {"silent"}

\* The context Client.Do passes to pool.Do: context.Background(), which has no
\* deadline and is never cancelled.
Background == [deadline |-> FALSE]
DoContext == Background

\* The dialer NewClient builds: user, password and a net.Dialer with the connect
\* timeout.  DialReadTimeout and DialWriteTimeout of the options are not passed
\* on, so a connection has no read or write deadline of its own.
Dialer(clientOpts) ==
  [AuthPass |-> clientOpts.Password, connectTimeout |-> TRUE,
   readTimeout |-> FALSE, writeTimeout |-> FALSE]

\* Whether a read of the reply gives up by itself: only by the call's context or
\* by a read timeout of the connection.
ReadExpires(ctx, dialer) == ctx.deadline \/ dialer.readTimeout

\* pool.Do's error for a command: a closed pool refuses it, an open one reports
\* what the wire did.
PoolDoErr(pool, outcome) ==
  IF pool.state # "open" THEN ErrClosed
  ELSE IF outcome = "ok" THEN NilErr
  ELSE ErrRemote

\* Whether the store executes the command.
Reaches(pool, outcome) == pool.state = "open" /\ outcome \notin {"lost", "silent"}

\* ------------------------------------------------------ Client.Close, Client.Do

\* Client.Close that never reaches the pool.
ClientCloseNoop(pool) == [pool |-> pool, err |-> NilErr]

\* Client.Close that drops the pool's error.
ClientCloseSwallow(pool) == [pool |-> PoolClose(pool).pool, err |-> NilErr]

\* Client.Close: closes the pool and wraps the pool's error, if any.
ClientClose(pool) ==
  LET r == PoolClose(pool)
  IN  [pool |-> r.pool,
       err |-> IF r.err # NilErr
               THEN Errorf("failed to close connection", NoAction, r.err)
               ELSE NilErr]

\* Client.Do that drops the pool's error.
ClientDoSwallow(action, poolErr) == NilErr

\* Client.Do that returns the pool's error as it is, without the action.
ClientDoBare(action, poolErr) == poolErr

\* Client.Do: hands the action to the pool and wraps the pool's error, if any,
\* together with the action.
ClientDo(action, poolErr) ==
  IF poolErr # NilErr THEN Errorf("failed to perform action", action, poolErr) ELSE NilErr

\* ------------------------------------------------------------- NewClient

\* What the surroundings do during one NewClient: what the TLS files hold, whether
\* the pool can be built (dial, handshake, timeout), and how each CONFIG SET
\* fares.  The files matter only to a NewClient that reads them and masterauth's
\* fate only to one that sends it, so one value stands for all where the options
\* rule the step out.
NewClientEnvs(clientOpts) ==
  [caFile : IF clientOpts.TLSEnabled THEN CaFiles ELSE {"ok"},
   keyPair : IF clientOpts.TLSEnabled THEN KeyPairs ELSE {"ok"},
   poolNew : BOOLEAN,
   announce : Outcomes,
   masterauth : IF clientOpts.ACLEnabled THEN Outcomes ELSE {"ok"},
   close : {"ok"}]

\* The same with pools whose Close may report a failure.
CloseFates == {"ok", "fail"}
RollbackEnvs(clientOpts) ==
  {[env EXCEPT !.close = f] : env \in NewClientEnvs(clientOpts), f \in CloseFates}

AnnounceCmd(ipAddr) == <<"CONFIG", "SET", "cluster-announce-ip", ipAddr>>
MasterauthCmd(password) == <<"CONFIG", "SET", "masterauth", password>>

\* What one NewClient did and returned.  client: a Client is returned (else nil);
\* pool: the pool it built, as it is at the return; tlsLoads: calls of
\* createTLSConfig; read: what the TLS files it read held; poolNews: calls of
\* poolCfg.New (the first network I/O); cmds: the commands handed to Do, in
\* order; wire: how each fared.
NewClientResult(client, err, pool, tlsLoads, read, poolNews, cmds, wire) ==
  [client |-> client, err |-> err, pool |-> pool, tlsLoads |-> tlsLoads,
   read |-> read, poolNews |-> poolNews, cmds |-> cmds, wire |-> wire]

\* The failure branches without their c.Close().
OnSplitErrLeak(c, err, tlsLoads, read) ==
  NewClientResult(FALSE,
    Errorf("failed split address, closing client connection", NoAction, err),
    c, tlsLoads, read, 1, << >>, << >>)

OnAnnounceErrLeak(c, err, tlsLoads, read, cmds, wire) ==
  NewClientResult(FALSE,
    Errorf("failed to CONFIG SET, closing client connection", NoAction, err),
    c, tlsLoads, read, 1, cmds, wire)

OnMasterauthErrLeak(c, err, tlsLoads, read, cmds, wire) ==
  NewClientResult(FALSE,
    Errorf("failed to CONFIG SET, closing client connection", NoAction, err),
    c, tlsLoads, read, 1, cmds, wire)

\* A failed cluster-announce-ip that is passed over: masterauth goes out all the
\* same and the Client is returned.
OnAnnounceErrGoOn(c, err, tlsLoads, read, cmds, wire) ==
  NewClientResult(TRUE, NilErr, c, tlsLoads, read, 1,
                  cmds \o <<MasterauthCmd(<< >>)>>, wire \o <<"ok">>)

\* The failure of poolCfg.New with and without its fmt.Errorf.
OnPoolNewErrBare(err, tlsLoads, read) ==
  NewClientResult(FALSE, err, NoPool, tlsLoads, read, 1, << >>, << >>)

OnPoolNewErr(err, tlsLoads, read) ==
  NewClientResult(FALSE, Errorf("radix poolCfg.New err", NoAction, err),
                  NoPool, tlsLoads, read, 1, << >>, << >>)

\* The split failure branch with its c.Close() run twice.
OnSplitErrCloseTwice(c, err, tlsLoads, read) ==
  NewClientResult(FALSE,
    Errorf("failed split address, closing client connection", NoAction, err),
    ClientClose(ClientClose(c).pool).pool, tlsLoads, read, 1, << >>, << >>)

\* NewClient's three failure branches after the pool was built: each closes the
\* Client (dropping Close's own error) and returns nil with a wrapped error.
OnSplitErr(c, err, tlsLoads, read) ==
  NewClientResult(FALSE,
    Errorf("failed split address, closing client connection", NoAction, err),
    ClientClose(c).pool, tlsLoads, read, 1, << >>, << >>)

OnAnnounceErr(c, err, tlsLoads, read, cmds, wire) ==
  NewClientResult(FALSE,
    Errorf("failed to CONFIG SET, closing client connection", NoAction, err),
    ClientClose(c).pool, tlsLoads, read, 1, cmds, wire)

OnMasterauthErr(c, err, tlsLoads, read, cmds, wire) ==
  NewClientResult(FALSE,
    Errorf("failed to CONFIG SET, closing client connection", NoAction, err),
    ClientClose(c).pool, tlsLoads, read, 1, cmds, wire)

\* NewClient with the options as a parameter; the program passes
\* ClientOptionsLiteral (see Init).
NewClient(addr, clientOpts, env) ==
  LET tls == createTLSConfig(env.caFile, env.keyPair)
      tlsLoads == IF clientOpts.TLSEnabled THEN 1 ELSE 0
      read == IF clientOpts.TLSEnabled THEN tls.read ELSE << >>
      netDialer == "*net.Dialer"
      c == IF env.close = "fail" THEN FaultyPool ELSE OpenPool
      split == SplitHostPort(addr)
      ipAddr == split.host
      cmd1 == AnnounceCmd(ipAddr)
      err1 == ClientDo(cmd1, PoolDoErr(c, env.announce))
      cmd2 == MasterauthCmd(clientOpts.Password)
      err2 == ClientDo(cmd2, PoolDoErr(c, env.masterauth))
  IN  IF clientOpts.TLSEnabled /\ tls.err # NilErr
        THEN NewClientResult(FALSE, tls.err, NoPool, tlsLoads, read, 0, << >>, << >>)
      ELSE IF clientOpts.TLSEnabled /\ netDialer # "*net.Dialer"
        THEN NewClientResult(FALSE, errTypeAssertion, NoPool, tlsLoads, read, 0, << >>, << >>)
      ELSE IF ~env.poolNew
        THEN OnPoolNewErr(ErrDial, tlsLoads, read)
      ELSE IF split.err # NilErr
        THEN OnSplitErr(c, split.err, tlsLoads, read)
      ELSE IF err1 # NilErr
        THEN OnAnnounceErr(c, err1, tlsLoads, read, <<cmd1>>, <<env.announce>>)
      ELSE IF clientOpts.ACLEnabled /\ err2 # NilErr
        THEN OnMasterauthErr(c, err2, tlsLoads, read, <<cmd1, cmd2>>,
                             <<env.announce, env.masterauth>>)
      ELSE IF clientOpts.ACLEnabled
        THEN NewClientResult(TRUE, NilErr, c, tlsLoads, read, 1, <<cmd1, cmd2>>,
                             <<env.announce, env.masterauth>>)
      ELSE NewClientResult(TRUE, NilErr, c, tlsLoads, read, 1, <<cmd1>>, <<env.announce>>)

\* ------------------------------------------------------------ the store

GetCmd(k) == <<"GET", k>>
SetCmd(k, v) == <<"SET", k, v>>
\* The commands the goroutines of SpecClient issue: all on one key, so that they
\* meet.
ClientKeys == {"k1"}
DataCmds == {GetCmd(k) : k \in ClientKeys} \cup {SetCmd(k, v) : k \in ClientKeys, v \in Vals}

\* The store executes one command: GET answers the value (Empty for a missing
\* key), SET overwrites and answers OK.
StoreExec(st, cmd) ==
  IF cmd[1] = "GET" THEN [store |-> st, reply |-> st[cmd[2]]]
  ELSE [store |-> [st EXCEPT ![cmd[2]] = cmd[3]], reply |-> "OK"]

\* radix.Cmd(&result, ...): the receiver gets the reply of an answered command and
\* keeps Go's zero value otherwise.
Received(poolErr, reply) == IF poolErr = NilErr THEN reply ELSE Empty

\* ------------------------------------------------------------ state

VARIABLES
  clientOpts,   \* the ClientOptions NewClient runs with
  store,        \* the store's data: key -> value, Empty when unset
  nc,           \* the latest NewClient invocation: its address and what it did
  owner,        \* SpecClient: the caller that makes and closes the shared Client
  shared,       \* SpecClient: the pool of the shared Client
  conns,        \* SpecClient: the pool's connections, who holds each, its reply
  workers,      \* SpecClient: the goroutines calling Do on the shared Client
  doCalls,      \* SpecClient: Do calls on the shared Client: issued, and returned
  req,          \* Spec: the HTTP requests being handled
  reconnect     \* SpecReconnect: the pool's connection and its reconnect backoff

vars == <<clientOpts, store, nc, owner, shared, conns, workers, doCalls, req, reconnect>>

Workers == 1..NumWorkers
Reqs == 1..NumReqs
Conns == 1..PoolSize

NoCall == [called |-> FALSE, addr |-> << >>,
           res |-> NewClientResult(FALSE, NilErr, NoPool, 0, << >>, 0, << >>, << >>)]
Called(addr, res) == [called |-> TRUE, addr |-> addr, res |-> res]

NoSet == [k |-> Empty, v |-> Empty]
NoReply == [for |-> 0, val |-> Empty]
FreeConn == [holder |-> 0, reply |-> NoReply]

\* One goroutine: where it is in Do (idle: outside; wait: waiting for a
\* connection; exec: command on the wire), the command, the connection it holds
\* and how the command fared, what its last completed call returned (err,
\* result), and bookkeeping for the properties (lastSet: its last successful SET
\* not overwritten since; expect: the value its GET must see; failed: an earlier
\* Do of it failed).
IdleWorker ==
  [pc |-> "idle", cmd |-> NoAction, conn |-> 0, out |-> "ok", err |-> NilErr,
   result |-> Empty, lastSet |-> NoSet, expect |-> Empty, failed |-> FALSE]

\* One HTTP request: where its handler is, the key it asks for or sets (id), the
\* URL it stores, its two Clients (rClient, rClient2: the pools they wrap) and the
\* response it sent.
NoResp == [status |-> 0, body |-> Empty]
NoReq == [pc |-> "start", id |-> Empty, url |-> Empty, rClient |-> NoPool,
          rClient2 |-> NoPool, resp |-> NoResp]

\* The pool's connection: up, or down and being re-established, with the wait
\* before the next attempt (backoff, in ms), the wait before it (prev), the failed
\* attempts since it dropped and how often it has dropped.
ConnUp(drops) == [state |-> "up", backoff |-> 0, prev |-> 0, failures |-> 0, drops |-> drops]

InitCommon ==
  /\ store \in [Keys -> {Empty}]
  /\ nc = NoCall
  /\ owner = [pc |-> "init", closeErrs |-> << >>]
  /\ shared = NoPool
  /\ conns = [i \in Conns |-> FreeConn]
  /\ workers = [w \in Workers |-> IdleWorker]
  /\ doCalls = [issued |-> 0, returned |-> 0]
  /\ req = [r \in Reqs |-> NoReq]
  /\ reconnect = ConnUp(0)

Init == clientOpts = ClientOptionsLiteral /\ InitCommon
InitOpts == clientOpts \in AllClientOptions /\ InitCommon

\* ------------------------------------------- callers of the exported API

\* The owner calls NewClient(addr).
CallNewClient(addr, env) ==
  /\ owner.pc = "init"
  /\ LET res == NewClient(addr, clientOpts, env)
     IN  /\ nc' = Called(addr, res)
         /\ shared' = res.pool
         /\ owner' = [owner EXCEPT !.pc = IF res.client THEN "live" ELSE "failed"]
  /\ UNCHANGED <<clientOpts, store, conns, workers, doCalls, req, reconnect>>

\* The owner calls Close on the Client it holds, once more.
CallClose ==
  /\ owner.pc = "live"
  /\ Len(owner.closeErrs) < MaxClose
  /\ LET r == ClientClose(shared)
     IN  /\ shared' = r.pool
         /\ owner' = [owner EXCEPT !.closeErrs = Append(@, r.err)]
  /\ UNCHANGED <<clientOpts, store, nc, conns, workers, doCalls, req, reconnect>>

\* A goroutine enters Do(cmd) on the shared Client.
DoCall(w, cmd) ==
  /\ owner.pc = "live"
  /\ workers[w].pc = "idle"
  /\ doCalls.issued < MaxDo
  /\ doCalls' = [doCalls EXCEPT !.issued = @ + 1]
  /\ workers' = [workers EXCEPT ![w] =
       [@ EXCEPT !.pc = "wait", !.cmd = cmd, !.out = "ok", !.err = NilErr,
                 !.result = Empty, !.expect = Empty]]
  /\ UNCHANGED <<clientOpts, store, nc, owner, shared, conns, req, reconnect>>

\* What Do returns to the goroutine, and what the goroutine then knows.
Complete(wk, poolErr, reply) ==
  LET err == ClientDo(wk.cmd, poolErr)
  IN  [wk EXCEPT !.pc = "idle", !.conn = 0,
                 !.err = err, !.result = Received(poolErr, reply.val),
                 !.lastSet = IF err # NilErr /\ wk.cmd[1] = "SET" THEN NoSet ELSE @,
                 !.failed = @ \/ err # NilErr]

\* The pool is closed: pool.Do refuses the command at once.
DoRefused(w) ==
  /\ workers[w].pc = "wait"
  /\ shared.state # "open"
  /\ workers' = [workers EXCEPT
       ![w] = Complete([@ EXCEPT !.out = "lost"], PoolDoErr(shared, "ok"), NoReply)]
  /\ doCalls' = [doCalls EXCEPT !.returned = @ + 1]
  /\ UNCHANGED <<clientOpts, store, nc, owner, shared, conns, req, reconnect>>

\* The pool hands the goroutine a free connection and the command goes on the
\* wire: the store executes it unless it is lost, and its reply waits on the
\* connection.
DoSend(w, i, out) ==
  /\ workers[w].pc = "wait"
  /\ shared.state = "open"
  /\ conns[i].holder = 0
  /\ LET cmd == workers[w].cmd
         ex == StoreExec(store, cmd)
         reaches == Reaches(shared, out)
         isSet == cmd[1] = "SET"
     IN  /\ store' = IF reaches THEN ex.store ELSE store
         /\ conns' = [conns EXCEPT ![i] =
              [holder |-> w,
               reply |-> IF out = "ok" THEN [for |-> w, val |-> ex.reply] ELSE NoReply]]
         /\ workers' = [v \in Workers |->
              IF v = w
              THEN [workers[v] EXCEPT
                     !.pc = "exec", !.conn = i, !.out = out,
                     !.expect = IF ~isSet /\ workers[v].lastSet.k = cmd[2]
                                THEN workers[v].lastSet.v ELSE Empty,
                     !.lastSet = IF isSet THEN [k |-> cmd[2], v |-> cmd[3]] ELSE @]
              ELSE IF isSet /\ reaches /\ workers[v].lastSet.k = cmd[2]
                   THEN [workers[v] EXCEPT !.lastSet = NoSet]
                   ELSE workers[v]]
  /\ UNCHANGED <<clientOpts, nc, owner, shared, doCalls, req, reconnect>>

\* pool.Do returns: the goroutine takes the reply off its connection and gives
\* the connection back.  The read of a silent store's reply ends only when it
\* expires or when Close has torn the connection down.
DoReturn(w) ==
  /\ workers[w].pc = "exec"
  /\ \/ workers[w].out # "silent"
     \/ ReadExpires(DoContext, Dialer(clientOpts))
     \/ shared.state # "open"
  /\ LET i == workers[w].conn
         wk == workers[w]
     IN  /\ workers' = [workers EXCEPT
              ![w] = Complete(wk, PoolDoErr(OpenPool, wk.out), conns[i].reply)]
         /\ conns' = [conns EXCEPT ![i] = FreeConn]
  /\ doCalls' = [doCalls EXCEPT !.returned = @ + 1]
  /\ UNCHANGED <<clientOpts, store, nc, owner, shared, req, reconnect>>

NextClient ==
  \/ \E addr \in Addrs, env \in NewClientEnvs(clientOpts) : CallNewClient(addr, env)
  \/ CallClose
  \/ \E w \in Workers, cmd \in DataCmds : DoCall(w, cmd)
  \/ \E w \in Workers : DoRefused(w)
  \/ \E w \in Workers, i \in Conns, out \in Fates : DoSend(w, i, out)
  \/ \E w \in Workers : DoReturn(w)

SpecClient == Init /\ [][NextClient]_vars
\* NewClient and Close alone, for the options NewClient never gets from its body.
NextOpts ==
  \/ \E addr \in Addrs, env \in NewClientEnvs(clientOpts) : CallNewClient(addr, env)
  \/ CallClose

SpecOpts == InitOpts /\ [][NextOpts]_vars

\* NewClient and Close with any options, on pools whose Close may fail.
NextRollback ==
  \/ \E addr \in Addrs, env \in RollbackEnvs(clientOpts) : CallNewClient(addr, env)
  \/ CallClose

SpecRollback == InitOpts /\ [][NextRollback]_vars

\* ------------------------------------------------------- reconnecting

\* The wait after one more failed attempt: doubled, up to MaxReconnectInterval.
NextBackoff(cur) ==
  IF cur * 2 > MaxReconnectInterval THEN MaxReconnectInterval ELSE cur * 2

\* The connection of the open pool drops: the pool waits MinReconnectInterval
\* before it dials again.
ConnDrop ==
  /\ shared.state = "open"
  /\ reconnect.state = "up"
  /\ reconnect.drops < MaxDrops
  /\ reconnect' = [state |-> "down", backoff |-> MinReconnectInterval,
                   prev |-> MinReconnectInterval, failures |-> 0,
                   drops |-> reconnect.drops + 1]
  /\ UNCHANGED <<clientOpts, store, nc, owner, shared, conns, workers, doCalls, req>>

\* A dial of the pool fails: the pool waits longer before the next one.
ReconnectFail ==
  /\ shared.state = "open"
  /\ reconnect.state = "down"
  /\ reconnect.failures < MaxFailures
  /\ reconnect' = [reconnect EXCEPT !.prev = reconnect.backoff,
                                    !.backoff = NextBackoff(reconnect.backoff),
                                    !.failures = @ + 1]
  /\ UNCHANGED <<clientOpts, store, nc, owner, shared, conns, workers, doCalls, req>>

\* A dial of the pool succeeds: the connection is up again.
ReconnectOk ==
  /\ shared.state = "open"
  /\ reconnect.state = "down"
  /\ reconnect' = ConnUp(reconnect.drops)
  /\ UNCHANGED <<clientOpts, store, nc, owner, shared, conns, workers, doCalls, req>>

NextReconnect ==
  \/ \E addr \in Addrs, env \in NewClientEnvs(clientOpts) : CallNewClient(addr, env)
  \/ CallClose
  \/ ConnDrop
  \/ ReconnectFail
  \/ ReconnectOk

SpecReconnect == Init /\ [][NextReconnect]_vars

\* ------------------------------------------------------- the HTTP handlers

\* One whole Client.Do of a handler on its own Client c: nobody else uses that
\* pool, so the call is one step on the store.
Do(c, st, cmd, out) ==
  LET poolErr == PoolDoErr(c, out)
      ex == StoreExec(st, cmd)
  IN  [err |-> ClientDo(cmd, poolErr),
       result |-> Received(poolErr, ex.reply),
       store |-> IF Reaches(c, out) THEN ex.store ELSE st]

\* The deferred Close of a Client the handler acquired (a pool that was never
\* built has no defer registered).
Deferred(c) == IF c.state = "none" THEN c ELSE ClientClose(c).pool

\* A return that runs only the defer registered last.
ReturnLeak(rq, status, body) ==
  [rq EXCEPT !.pc = "done", !.resp = [status |-> status, body |-> body],
             !.rClient2 = Deferred(rq.rClient2)]

\* The handler returns: the response is sent and the deferred Closes run, last
\* registered first.
Return(rq, status, body) ==
  [rq EXCEPT !.pc = "done", !.resp = [status |-> status, body |-> body],
             !.rClient2 = Deferred(rq.rClient2), !.rClient = Deferred(rq.rClient)]

NotFoundMsg == "short not found in the database or cannot connect to DB"

\* ResolveURL up to the defer: NewClient("db:6379"), 404 when it fails.
ResolveURLNewClient(r, url, env) ==
  /\ req[r].pc = "start"
  /\ LET res == NewClient(AddrDb, clientOpts, env)
     IN  /\ nc' = Called(AddrDb, res)
         /\ req' = [req EXCEPT ![r] =
              IF res.err # NilErr
              THEN Return([@ EXCEPT !.id = url], 404, NotFoundMsg)
              ELSE [@ EXCEPT !.pc = "resolveGet", !.id = url, !.rClient = res.pool]]
  /\ UNCHANGED <<clientOpts, store, owner, shared, conns, workers, doCalls, reconnect>>

\* ResolveURL from the GET on: 404 when Do fails, else a 301 to the result.
ResolveURLGet(r, out) ==
  /\ req[r].pc = "resolveGet"
  /\ LET d == Do(req[r].rClient, store, GetCmd(req[r].id), out)
     IN  /\ store' = d.store
         /\ req' = [req EXCEPT ![r] =
              IF d.err # NilErr THEN Return(@, 404, NotFoundMsg)
              ELSE Return(@, 301, d.result)]
  /\ UNCHANGED <<clientOpts, nc, owner, shared, conns, workers, doCalls, reconnect>>

\* ShortenURL up to the first defer: parse the body, NewClient("db:6379").
ShortenURLNewClient(r, parsed, env) ==
  /\ req[r].pc = "start"
  /\ IF ~parsed
     THEN /\ req' = [req EXCEPT ![r] = Return(@, 400, "Cannot parse JSON")]
          /\ nc' = nc
     ELSE LET res == NewClient(AddrDb, clientOpts, env)
          IN  /\ nc' = Called(AddrDb, res)
              /\ req' = [req EXCEPT ![r] =
                   IF res.err # NilErr THEN Return(@, 400, "err.Error()")
                   ELSE [@ EXCEPT !.pc = "shortenValidate", !.rClient = res.pool]]
  /\ UNCHANGED <<clientOpts, store, owner, shared, conns, workers, doCalls, reconnect>>

\* ShortenURL from the URL checks to the second defer.  isURL, domainOk and url
\* are what govalidator.IsURL, helpers.RemoveDomainError and helpers.EnforceHTTP
\* answer for the body's URL; id is the body's custom short, or the first six
\* characters of a fresh UUID.
ShortenURLValidate(r, isURL, domainOk, url, id, env) ==
  /\ req[r].pc = "shortenValidate"
  /\ IF ~isURL
     THEN /\ req' = [req EXCEPT ![r] = Return(@, 400, "Invalid URL")]
          /\ nc' = nc
     ELSE IF ~domainOk
     THEN /\ req' = [req EXCEPT ![r] = Return(@, 503, "Domain error")]
          /\ nc' = nc
     ELSE LET res == NewClient(AddrDb, clientOpts, env)
          IN  /\ nc' = Called(AddrDb, res)
              /\ req' = [req EXCEPT ![r] =
                   IF res.err # NilErr
                   THEN Return([@ EXCEPT !.id = id, !.url = url], 400, "err.Error()")
                   ELSE [@ EXCEPT !.pc = "shortenGet", !.id = id, !.url = url,
                                  !.rClient2 = res.pool]]
  /\ UNCHANGED <<clientOpts, store, owner, shared, conns, workers, doCalls, reconnect>>

\* ShortenURL's GET of the id: 400 when Do fails, 403 when the id has a value.
ShortenURLGet(r, out) ==
  /\ req[r].pc = "shortenGet"
  /\ LET d == Do(req[r].rClient2, store, GetCmd(req[r].id), out)
     IN  /\ store' = d.store
         /\ req' = [req EXCEPT ![r] =
              IF d.err # NilErr THEN Return(@, 400, "Error creating Client")
              ELSE IF d.result # Empty
                THEN Return(@, 403, "URL custom short is already in use")
              ELSE [@ EXCEPT !.pc = "shortenSet"]]
  /\ UNCHANGED <<clientOpts, nc, owner, shared, conns, workers, doCalls, reconnect>>

\* ShortenURL's SET of the id and its response.
ShortenURLSet(r, out) ==
  /\ req[r].pc = "shortenSet"
  /\ LET d == Do(req[r].rClient2, store, SetCmd(req[r].id, req[r].url), out)
     IN  /\ store' = d.store
         /\ req' = [req EXCEPT ![r] =
              IF d.err # NilErr THEN Return(@, 500, "Unable to connect to server")
              ELSE Return(@, 200, req[r].id)]
  /\ UNCHANGED <<clientOpts, nc, owner, shared, conns, workers, doCalls, reconnect>>

Next ==
  \/ \E r \in Reqs, url \in Keys, env \in NewClientEnvs(clientOpts) : ResolveURLNewClient(r, url, env)
  \/ \E r \in Reqs, out \in Outcomes : ResolveURLGet(r, out)
  \/ \E r \in Reqs, parsed \in BOOLEAN, env \in NewClientEnvs(clientOpts) :
       ShortenURLNewClient(r, parsed, env)
  \/ \E r \in Reqs, isURL \in BOOLEAN, domainOk \in BOOLEAN, url \in Vals, id \in Keys,
        env \in NewClientEnvs(clientOpts) : ShortenURLValidate(r, isURL, domainOk, url, id, env)
  \/ \E r \in Reqs, out \in Outcomes : ShortenURLGet(r, out)
  \/ \E r \in Reqs, out \in Outcomes : ShortenURLSet(r, out)

Spec == Init /\ [][Next]_vars

\* ------------------------------------------------------------ properties

Last(q) == q[Len(q)]
RemoteFrame == Frame("remote error", NoAction)
Malformed == {AddrNoPort, AddrColons, AddrBracket}
PoolBuilt(res) == res.pool.state # "none"
NoOpenPool(res) == res.pool.state \in {"none", "closed"}
ClosedOnce(pool) == pool.state = "closed" /\ pool.closeCalls = 1

\* C1: NewClient returns a Client only if the pool was built, cluster-announce-ip
\* succeeded and, with ACL enabled, masterauth succeeded; and whenever it returns
\* an error it returns no Client and leaves no pool open.
NewClientAllOrNothing ==
  nc.called =>
    /\ nc.res.client =>
         /\ nc.res.err = NilErr
         /\ nc.res.poolNews = 1 /\ nc.res.pool.state = "open"
         /\ Len(nc.res.wire) >= 1 /\ nc.res.wire[1] = "ok"
         /\ nc.res.cmds[1][3] = "cluster-announce-ip"
         /\ clientOpts.ACLEnabled =>
              /\ Len(nc.res.wire) = 2 /\ nc.res.wire[2] = "ok"
              /\ nc.res.cmds[2][3] = "masterauth"
    /\ nc.res.err # NilErr => ~nc.res.client /\ NoOpenPool(nc.res)
    /\ ~nc.res.client => nc.res.err # NilErr

\* A NewClient with ACL enabled failed at masterauth and rolled its pool back.
NewClientAllOrNothingWitness ==
  /\ nc.called /\ clientOpts.ACLEnabled /\ ~nc.res.client
  /\ Len(nc.res.wire) = 2 /\ nc.res.wire[2] # "ok"
  /\ ClosedOnce(nc.res.pool)

\* C2: if the pool was built and CONFIG SET cluster-announce-ip fails, NewClient
\* returns an error wrapping the underlying failure and no Client, and the pool's
\* Close was called before it returned.
AnnounceFailureRollsBack ==
  (nc.called /\ Len(nc.res.wire) >= 1 /\ nc.res.wire[1] # "ok") =>
    /\ nc.res.err # NilErr
    /\ nc.res.err[1].msg = "failed to CONFIG SET, closing client connection"
    /\ Last(nc.res.err) = RemoteFrame
    /\ ~nc.res.client
    /\ ClosedOnce(nc.res.pool)
    /\ (owner.pc = "failed" => shared.state = "closed")

\* The announcement was sent, got no answer, and the pool is closed.
AnnounceFailureRollsBackWitness ==
  /\ nc.called /\ nc.res.cmds = <<AnnounceCmd(<<"d", "b">>)>>
  /\ nc.res.wire = <<"noreply">>
  /\ owner.pc = "failed" /\ ClosedOnce(shared)

\* C3: with ACL enabled, the pool built and cluster-announce-ip answered, a failing
\* CONFIG SET masterauth makes NewClient return an error and no Client, with the
\* pool closed before it returns.
MasterauthFailureRollsBack ==
  (/\ nc.called /\ clientOpts.ACLEnabled
   /\ Len(nc.res.wire) = 2 /\ nc.res.wire[1] = "ok" /\ nc.res.wire[2] # "ok") =>
    /\ nc.res.err # NilErr
    /\ Last(nc.res.err) = RemoteFrame
    /\ ~nc.res.client
    /\ ClosedOnce(nc.res.pool)
    /\ owner.pc = "failed" /\ shared.state = "closed"

\* masterauth was sent with the password and was lost.
MasterauthFailureRollsBackWitness ==
  /\ nc.called /\ clientOpts.ACLEnabled /\ clientOpts.Password = <<"p", "w">>
  /\ nc.res.cmds = <<AnnounceCmd(<<"d", "b">>), MasterauthCmd(<<"p", "w">>)>>
  /\ nc.res.wire = <<"ok", "lost">>
  /\ owner.pc = "failed" /\ ClosedOnce(shared)

\* C4: NewClient on an address that cannot be split into host and port returns an
\* error, hands no command to Do, and leaves any pool it built closed.
MalformedAddressIssuesNothing ==
  (nc.called /\ nc.addr \in Malformed) =>
    /\ nc.res.err # NilErr
    /\ ~nc.res.client
    /\ nc.res.cmds = << >>
    /\ NoOpenPool(nc.res)
    /\ PoolBuilt(nc.res) => ClosedOnce(nc.res.pool)
    /\ owner.pc = "failed" => shared.state # "open"

\* The pool was built for an address without a port and was closed again.
MalformedAddressIssuesNothingWitness ==
  /\ nc.called /\ nc.addr = AddrNoPort
  /\ nc.res.err[1].msg = "failed split address, closing client connection"
  /\ ClosedOnce(shared)

\* C5: with TLS enabled and TLS material that cannot be loaded, NewClient fails
\* with the loader's error before any network I/O: poolCfg.New is not called and
\* no command is issued.
BadTLSMaterialFailsBeforeNetwork ==
  (/\ nc.called /\ clientOpts.TLSEnabled
   /\ \E i \in 1..Len(nc.res.read) : nc.res.read[i] # "ok") =>
    /\ nc.res.err # NilErr
    /\ Last(nc.res.err) \in {Frame("file error", NoAction),
                             Frame("unable to append the CA certificate", NoAction)}
    /\ ~nc.res.client
    /\ nc.res.poolNews = 0
    /\ nc.res.cmds = << >>
    /\ nc.res.pool = NoPool /\ shared = NoPool

\* The CA file held no PEM certificate.
BadTLSMaterialFailsBeforeNetworkWitness ==
  /\ nc.called /\ clientOpts.TLSEnabled /\ nc.res.tlsLoads = 1
  /\ nc.res.read = <<"nopem">>
  /\ nc.res.err = errCACertificate

\* C6: with TLS and ACL disabled, NewClient on an address where the pool is built
\* and the announcement is answered returns a Client and no error; the first Close
\* of that Client closes the pool and returns no error, every later Close returns
\* the pool's failure, wrapped.
CloseSucceedsExactlyOnce ==
  /\ (/\ nc.called /\ ~clientOpts.TLSEnabled /\ ~clientOpts.ACLEnabled
      /\ nc.res.wire = <<"ok">>) =>
        nc.res.client /\ nc.res.err = NilErr /\ owner.pc = "live"
  /\ owner.pc = "live" =>
       /\ shared.closeCalls = Len(owner.closeErrs)
       /\ shared.state = IF Len(owner.closeErrs) = 0 THEN "open" ELSE "closed"
       /\ \A i \in 1..Len(owner.closeErrs) :
            IF i = 1 THEN owner.closeErrs[i] = NilErr
            ELSE /\ owner.closeErrs[i] # NilErr
                 /\ owner.closeErrs[i][1].msg = "failed to close connection"
                 /\ Last(owner.closeErrs[i]) = Frame("closed", NoAction)

\* The Client was closed twice.
CloseSucceedsExactlyOnceWitness ==
  /\ owner.pc = "live" /\ nc.res.client
  /\ Len(owner.closeErrs) = 2
  /\ owner.closeErrs[1] = NilErr /\ owner.closeErrs[2] # NilErr

\* What a completed Do returned fits how its command fared.
Completed(w) == workers[w].pc = "idle" /\ workers[w].cmd # NoAction
DoResultFits(w) ==
  /\ workers[w].err = NilErr <=> workers[w].out = "ok"
  /\ workers[w].err # NilErr =>
       /\ workers[w].err[1] = Frame("failed to perform action", workers[w].cmd)
       /\ Len(workers[w].err) = 2
       /\ workers[w].err[2] \in {RemoteFrame, Frame("closed", NoAction)}
       /\ workers[w].result = Empty

\* C7: a failing Do returns an error for that call, wrapping the underlying error
\* and the action; a successful Do returns no error; and no step of Do changes the
\* Client's pool.
DoFailureIsPerCall ==
  /\ [](\A w \in Workers : Completed(w) => DoResultFits(w))
  /\ [][(\E w \in Workers : workers'[w].pc # workers[w].pc) => shared' = shared]_vars

\* A goroutine's Do succeeded on the open Client after an earlier Do of it failed.
DoFailureIsPerCallWitness ==
  \E w \in Workers :
    /\ Completed(w) /\ workers[w].failed
    /\ workers[w].err = NilErr /\ workers[w].out = "ok"
    /\ shared = OpenPool

\* C8: when a handler has returned, every Client NewClient gave it was closed
\* exactly once and none is open; a Client of a handler still running is open and
\* unclosed; Close is never called for a NewClient that failed.
Released(c) == c = NoPool \/ ClosedOnce(c)
Held(c) == c = NoPool \/ c = OpenPool
HandlersReleaseClients ==
  \A r \in Reqs :
    /\ req[r].pc = "done" => Released(req[r].rClient) /\ Released(req[r].rClient2)
    /\ req[r].pc # "done" => Held(req[r].rClient) /\ Held(req[r].rClient2)

\* ShortenURL found the short in use and returned with both its Clients closed.
HandlersReleaseClientsWitness ==
  \E r \in Reqs :
    /\ req[r].pc = "done" /\ req[r].resp.status = 403
    /\ ClosedOnce(req[r].rClient) /\ ClosedOnce(req[r].rClient2)

\* C9: a goroutine's successful SET k v followed by its successful GET k, with no
\* other write of k reaching the store in between, returns v; and the Close that
\* follows succeeds.
ReadsOwnWrite ==
  /\ \A w \in Workers :
       (/\ Completed(w) /\ workers[w].cmd[1] = "GET"
        /\ workers[w].err = NilErr /\ workers[w].expect # Empty) =>
          workers[w].result = workers[w].expect
  /\ Len(owner.closeErrs) >= 1 => owner.closeErrs[1] = NilErr

\* SET then GET returned the value set, and the Client was closed without error.
ReadsOwnWriteWitness ==
  \E w \in Workers :
    /\ Completed(w) /\ workers[w].cmd = GetCmd("k1") /\ workers[w].err = NilErr
    /\ workers[w].expect = "u2" /\ workers[w].result = "u2"
    /\ doCalls.returned = 3
    /\ owner.closeErrs = <<NilErr>>

\* C10: with goroutines calling Do concurrently on one Client whose pool has
\* PoolSize connections, a connection serves one call at a time and holds only its
\* holder's reply, a waiting call can always go on (no deadlock), every call issued
\* is in flight or has returned, and every returned call has its own outcome.
InFlight == {w \in Workers : workers[w].pc # "idle"}
DoAlwaysReturns ==
  \A w \in Workers :
    (workers[w].pc = "exec" /\ workers[w].out = "silent" /\ shared.state = "open") =>
      ENABLED DoReturn(w)

\* C12: while a dropped connection is being re-established, the wait before the
\* next dial starts at no less than 125 ms, is never below 125 ms and never above
\* 4 s, and does not decrease from one failed dial to the next until it is 4 s.
BackoffWithinBounds ==
  reconnect.state = "down" =>
    /\ reconnect.backoff >= 125
    /\ reconnect.backoff <= 4000
    /\ reconnect.prev >= 125
    /\ reconnect.prev <= reconnect.backoff
    /\ reconnect.prev < 4000 /\ reconnect.failures > 0 => reconnect.prev < reconnect.backoff

\* After six failed dials in a row the wait has grown from 2 s to the 4 s cap.
BackoffWithinBoundsWitness ==
  /\ reconnect.state = "down" /\ reconnect.failures = 5
  /\ reconnect.prev = 2000 /\ reconnect.backoff = 4000

\* C13: when poolCfg.New fails, NewClient returns no Client and one error, the
\* cause wrapped once under the name of the pool construction; it has called
\* poolCfg.New once, holds no pool and has issued no command.
PoolFailureIsFinal ==
  [][\A addr \in Addrs, env \in NewClientEnvs(clientOpts) :
       (CallNewClient(addr, env) /\ ~env.poolNew /\ nc'.res.poolNews >= 1) =>
         /\ ~nc'.res.client
         /\ Len(nc'.res.err) = Len(ErrDial) + 1
         /\ nc'.res.err[1].msg = "radix poolCfg.New err"
         /\ Tail(nc'.res.err) = ErrDial
         /\ nc'.res.poolNews = 1
         /\ nc'.res.pool = NoPool /\ shared' = NoPool
         /\ nc'.res.cmds = << >> /\ nc'.res.wire = << >>
         /\ owner'.pc = "failed"]_vars

\* A NewClient with TLS and ACL enabled loaded its TLS files and then failed to
\* build the pool.
PoolFailureIsFinalWitness ==
  /\ nc.called /\ clientOpts.TLSEnabled /\ clientOpts.ACLEnabled
  /\ nc.res.tlsLoads = 1 /\ nc.res.poolNews = 1
  /\ nc.res.err = Errorf("radix poolCfg.New err", NoAction, ErrDial)

\* Whether the error err wraps the error cause.
Wraps(err, cause) ==
  Len(err) >= Len(cause) /\ SubSeq(err, Len(err) - Len(cause) + 1, Len(err)) = cause

\* C14: every pool operation that failed inside NewClient - poolCfg.New, a
\* CONFIG SET, or the Close that rolls the pool back - is in the error NewClient
\* returns.
NoErrorSwallowed ==
  nc.called =>
    /\ (nc.res.poolNews = 1 /\ ~PoolBuilt(nc.res)) => Wraps(nc.res.err, ErrDial)
    /\ (\E i \in 1..Len(nc.res.wire) : nc.res.wire[i] # "ok") => Wraps(nc.res.err, ErrRemote)
    /\ (nc.res.pool.state = "closed" /\ nc.res.pool.fault /\ ~nc.res.client) =>
         Wraps(nc.res.err, ErrCloseFail)

\* C15: the commands of one NewClient are a prefix of cluster-announce-ip with
\* the host of the address, then masterauth with the password: masterauth goes
\* out only with ACL enabled and after cluster-announce-ip succeeded, neither is
\* issued twice, and a NewClient that succeeds has issued one command with ACL
\* disabled and two with ACL enabled.
HandshakeOrderFixed ==
  nc.called =>
    LET cmds == nc.res.cmds
    IN  /\ Len(cmds) <= 2
        /\ Len(cmds) >= 1 =>
             /\ cmds[1] = <<"CONFIG", "SET", "cluster-announce-ip", SplitHostPort(nc.addr).host>>
             /\ SplitHostPort(nc.addr).err = NilErr
        /\ Len(cmds) = 2 =>
             /\ cmds[2] = <<"CONFIG", "SET", "masterauth", clientOpts.Password>>
             /\ clientOpts.ACLEnabled
             /\ nc.res.wire[1] = "ok"
        /\ nc.res.client => Len(cmds) = IF clientOpts.ACLEnabled THEN 2 ELSE 1

\* A NewClient with ACL enabled succeeded after both commands, in order.
HandshakeOrderFixedWitness ==
  /\ nc.called /\ nc.res.client /\ clientOpts.ACLEnabled
  /\ Len(nc.res.cmds) = 2
  /\ nc.res.cmds[1][3] = "cluster-announce-ip" /\ nc.res.cmds[2][3] = "masterauth"
  /\ nc.res.wire = <<"ok", "ok">>

\* C16: ResolveURL answers 404 with the one message when NewClient fails, when
\* the GET fails and when the key has no value in the store, and redirects with
\* 301 only when the key has a value, to that value.
ResolveNotFoundIsUniform ==
  [][/\ \A r \in Reqs, url \in Keys, env \in NewClientEnvs(clientOpts) :
          (ResolveURLNewClient(r, url, env) /\ NewClient(AddrDb, clientOpts, env).err # NilErr) =>
            req'[r].resp = [status |-> 404, body |-> NotFoundMsg]
     /\ \A r \in Reqs, out \in Outcomes :
          ResolveURLGet(r, out) =>
            req'[r].resp = IF out = "ok" /\ store[req[r].id] # Empty
                           THEN [status |-> 301, body |-> store[req[r].id]]
                           ELSE [status |-> 404, body |-> NotFoundMsg]]_vars

\* C17: a short id in use is never overwritten: once the store holds a value for
\* an id, no step of any ShortenURL request changes that value.
InUseShortNeverOverwritten ==
  [][\A k \in Keys : store[k] # Empty => store'[k] = store[k]]_vars

\* C18: one NewClient calls the pool's Close at most once, and exactly when it
\* fails after the pool was built (address split, cluster-announce-ip or
\* masterauth failed); it calls it neither when it succeeds nor when the pool was
\* not built, so a returned Client wraps a pool that was never closed.
RollbackClosesOnce ==
  nc.called =>
    /\ nc.res.pool.closeCalls <= 1
    /\ nc.res.pool.closeCalls = 1 <=> (nc.res.err # NilErr /\ nc.res.poolNews = 1 /\ PoolBuilt(nc.res))
    /\ nc.res.pool.closeCalls = 1 =>
         \/ SplitHostPort(nc.addr).err # NilErr
         \/ Last(nc.res.wire) # "ok"
    /\ nc.res.client => nc.res.pool.state = "open" /\ nc.res.pool.closeCalls = 0
    /\ ~PoolBuilt(nc.res) => nc.res.pool.closeCalls = 0
    /\ owner.closeErrs = << >> => shared = nc.res.pool

\* A NewClient with TLS enabled and ACL disabled lost the reply of
\* cluster-announce-ip and closed its pool once.
RollbackClosesOnceWitness ==
  /\ nc.called /\ clientOpts.TLSEnabled /\ ~clientOpts.ACLEnabled
  /\ nc.res.wire = <<"noreply">>
  /\ nc.res.pool.state = "closed" /\ nc.res.pool.closeCalls = 1

\* C19: NewClient, which takes the address alone, always runs with TLS and ACL
\* disabled: it never calls createTLSConfig and never issues masterauth, and when
\* it succeeds it has sent one command, CONFIG SET cluster-announce-ip with the
\* host of the address.
NewClientRunsPlain ==
  /\ ~clientOpts.TLSEnabled /\ ~clientOpts.ACLEnabled
  /\ nc.called =>
       /\ nc.res.tlsLoads = 0 /\ nc.res.read = << >>
       /\ \A i \in 1..Len(nc.res.cmds) : nc.res.cmds[i][3] # "masterauth"
       /\ nc.res.client =>
            nc.res.cmds = <<<<"CONFIG", "SET", "cluster-announce-ip", SplitHostPort(nc.addr).host>>>>

\* NewClient("db:6379") succeeded having sent the one command with host "db".
NewClientRunsPlainWitness ==
  /\ nc.called /\ nc.res.client /\ nc.addr = AddrDb
  /\ nc.res.cmds = <<<<"CONFIG", "SET", "cluster-announce-ip", <<"d", "b">>>>>>
  /\ nc.res.tlsLoads = 0

====
